---- MODULE Spec2Model ----
(***************************************************************************)
(* State-machine model of pyod.models.copod.COPOD                          *)
(* (src/pyod/models/copod.py): one detector instance and its three public  *)
(* operations fit, decision_function and explain_outlier.                  *)
(*                                                                         *)
(* Reals.  Every real the detector stores is a rational combination of     *)
(* logarithms of small integers: an ECDF value is c/n, a surprise is       *)
(* -ln(c/n).  Such a real x is held exactly as the exponent vector e of    *)
(*       exp(2x) = PRODUCT over primes p of p^e[p],                        *)
(* i.e. x = 1/2 * SUM e[p]*ln p.  The logarithms of the primes are         *)
(* linearly independent over the rationals, so two reals are equal iff     *)
(* their vectors are equal, and x >= y iff the product belonging to x - y  *)
(* is >= 1.  Floating-point rounding is not modelled.                      *)
(***************************************************************************)
EXTENDS Integers, Sequences, FiniteSets

VARIABLES contamination, attrs, X_train, U_l, U_r, U_skew, O,
          decision_scores_, threshold_, labels_, X, ref, since, last

inst == <<attrs, X_train, U_l, U_r, U_skew, O,
          decision_scores_, threshold_, labels_>>
vars == <<contamination, attrs, X_train, U_l, U_r, U_skew, O,
          decision_scores_, threshold_, labels_, X, ref, since, last>>

(* ------------------------------ bounds --------------------------------- *)
\* rows of a table given to fit, and to decision_function, in Spec
MaxTrain == 1
MaxQuery == 2
\* rows of the table of the single call of SpecOnce
MaxRows == 3
MaxDim == 2
\* the cells of a table are 0..MaxVal in Spec and 0..MaxValOnce in SpecOnce
MaxVal == 1
MaxValOnce == 2
MaxInd == 1
\* the count of scoring calls since the last fit saturates here
MaxCount == 2

\* most rows a scored table can have: the stored table followed by a query
\* (fit scores its table followed by itself)
MaxSize ==
  CHOOSE n \in {2 * MaxRows, 2 * MaxTrain, MaxTrain + MaxQuery} :
    \A k \in {2 * MaxRows, 2 * MaxTrain, MaxTrain + MaxQuery} : k <= n

(* --------------------------- exact reals ------------------------------- *)
\* a sequence with every element evaluated
Eval(s) == SubSeq(s, 1, Len(s))

RECURSIVE PrimesUpTo(_)
PrimesUpTo(n) ==
  IF n < 2 THEN <<>>
  ELSE IF \A q \in 2..(n - 1) : n % q # 0 THEN Append(PrimesUpTo(n - 1), n)
  ELSE PrimesUpTo(n - 1)
\* the primes that can divide a count or a sample size
Primes == PrimesUpTo(MaxSize + 1)
NP == Len(Primes)

RECURSIVE Vp(_, _)
Vp(p, n) == IF n % p = 0 THEN 1 + Vp(p, n \div p) ELSE 0

RECURSIVE Pow(_, _)
Pow(b, e) == IF e <= 0 THEN 1 ELSE b * Pow(b, e - 1)

Zero == Eval([k \in 1..NP |-> 0])
Add(a, b) == Eval([k \in 1..NP |-> a[k] + b[k]])
Scale(c, a) == Eval([k \in 1..NP |-> c * a[k]])
Half(a) == Eval([k \in 1..NP |-> a[k] \div 2])

\* the product of Primes[k]^(s*d[k]) over the k with s*d[k] > 0
RECURSIVE ProdPos(_, _, _)
ProdPos(d, s, k) ==
  IF k = 0 THEN 1 ELSE Pow(Primes[k], s * d[k]) * ProdPos(d, s, k - 1)

\* a >= b as reals
GEQ(a, b) ==
  LET d == Add(a, Scale(-1, b))
  IN  ProdPos(d, 1, NP) >= ProdPos(d, -1, NP)

\* -1 * np.log(c / n)
NegLog(c, n) == Eval([k \in 1..NP |-> 2 * (Vp(Primes[k], n) - Vp(Primes[k], c))])

Sign(k) == IF k > 0 THEN 1 ELSE IF k < 0 THEN -1 ELSE 0

(* ------------------------------ arrays --------------------------------- *)
\* A numpy array: element type, shape, and the rows (2-D) or the scalars
\* (1-D).  True/False are held as 1/0, as numpy orders and counts them.
Array(dt, sh, rows) == [dtype |-> dt, shape |-> sh, data |-> rows]
NoArray == Array("float64", <<0, 0>>, <<>>)
NoMatrix == <<>>
NoValue == [lo |-> Zero, hi |-> Zero, num |-> 0, den |-> 1]

Column(rows, j) == Eval([i \in 1..Len(rows) |-> rows[i][j]])
Neg(col) == Eval([i \in 1..Len(col) |-> 0 - col[i]])

\* np.concatenate((A, B), axis=0): the ranks and the column counts must agree
CanConcat(A, B) ==
  /\ Len(A.shape) = Len(B.shape)
  /\ Len(A.shape) = 2 => A.shape[2] = B.shape[2]
Concat(A, B) ==
  Array(IF A.dtype = "bool" /\ B.dtype = "bool" THEN "bool" ELSE "float64",
        <<A.shape[1] + B.shape[1], A.shape[2]>>, A.data \o B.data)

\* Python's s[-k:]
TakeLast(s, k) ==
  IF k = 0 \/ k >= Len(s) THEN s ELSE SubSeq(s, Len(s) - k + 1, Len(s))

\* Python's s[ind], negative indices counting from the end
InRange(s, ind) == 0 - Len(s) <= ind /\ ind < Len(s)
PyIndex(s, ind) == IF ind >= 0 THEN s[ind + 1] ELSE s[Len(s) + ind + 1]

(* ------------------------------- ECDF ---------------------------------- *)
RECURSIVE Insert(_, _)
Insert(x, s) ==
  IF s = <<>> THEN <<x>>
  ELSE IF x <= Head(s) THEN <<x>> \o s
  ELSE <<Head(s)>> \o Insert(x, Tail(s))

RECURSIVE Sort(_)
Sort(s) == IF s = <<>> THEN <<>> ELSE Insert(Head(s), Sort(Tail(s)))

\* np.searchsorted(s, t, side='right') on s[1..n]: bisection on indices lo..hi
RECURSIVE Bisect(_, _, _, _)
Bisect(s, t, lo, hi) ==
  IF lo >= hi THEN lo
  ELSE LET mid == lo + ((hi - lo) \div 2)
       IN  IF s[mid + 1] <= t THEN Bisect(s, t, mid + 1, hi)
           ELSE Bisect(s, t, lo, mid)
SearchSortedRight(s, t) == Bisect(s, t, 0, Len(s))

\* faulty variant: returns the steps of the distribution, in sample order
ecdf_steps(col) == Eval([i \in 1..Len(col) |-> <<i, Len(col)>>])
\* faulty variant: counts the -inf sentinel of the step function as an observation
ecdf_sentinel(col) ==
  LET x == Sort(col)
  IN  Eval([i \in 1..Len(col) |-> <<SearchSortedRight(x, col[i]), Len(col) + 1>>])
\* ECDF(X)(X): the step function with steps k/n at the sorted sample,
\* evaluated at every value of the sample; a value is the pair <<k, n>>
ecdf(col) ==
  LET x == Sort(col)
  IN  Eval([i \in 1..Len(col) |-> <<SearchSortedRight(x, col[i]), Len(col)>>])

(* --------------------------- the pipeline ------------------------------ *)
Surprise(F) == Eval([i \in 1..Len(F) |-> NegLog(F[i][1], F[i][2])])

\* the matrix whose columns are cols: matrix[i][j] = cols[j][i]
FromColumns(cols, n) ==
  Eval([i \in 1..n |-> Eval([j \in 1..Len(cols) |-> cols[j][i]])])

Ul_col(col) == Surprise(ecdf(col))
\* faulty variant: forgets to negate the column
Ur_col_same(col) == Surprise(ecdf(col))
Ur_col(col) == Surprise(ecdf(Neg(col)))

RECURSIVE SumSeq(_)
SumSeq(s) == IF s = <<>> THEN 0 ELSE Head(s) + SumSeq(Tail(s))

\* np.sign(scipy.stats.skew(col)): the sign of the third central moment,
\* 0 for a column of zero variance
SkewSign(col) ==
  LET n == Len(col)
      S == SumSeq(col)
      c == Eval([i \in 1..n |->
                   (n * col[i] - S) * (n * col[i] - S) * (n * col[i] - S)])
  IN  Sign(SumSeq(c))

\* faulty variant: selects one tail or the mean of both
Uskew_select(ul, ur, sk) ==
  IF sk > 0 THEN ur ELSE IF sk < 0 THEN ul ELSE Half(Add(ul, ur))
\* U_l * -1*np.sign(skewness - 1) + U_r * np.sign(skewness + 1), one cell
Uskew_cell(ul, ur, sk) ==
  Add(Scale((0 - 1) * Sign(sk - 1), ul), Scale(Sign(sk + 1), ur))

Maximum(a, b) == IF GEQ(a, b) THEN a ELSE b
\* np.maximum(U_skew, np.add(U_l, U_r)/2), one cell
O_cell(us, ul, ur) == Maximum(us, Half(Add(ul, ur)))

RECURSIVE SumVals(_)
SumVals(s) == IF s = <<>> THEN Zero ELSE Add(Head(s), SumVals(Tail(s)))
\* O.sum(axis=1)
RowSums(M) == Eval([i \in 1..Len(M) |-> SumVals(M[i])])

(* ------------------------ percentile and labels ------------------------ *)
RECURSIVE InsertVal(_, _)
InsertVal(x, s) ==
  IF s = <<>> THEN <<x>>
  ELSE IF GEQ(Head(s), x) THEN <<x>> \o s
  ELSE <<Head(s)>> \o InsertVal(x, Tail(s))

RECURSIVE SortVals(_)
SortVals(s) == IF s = <<>> THEN <<>> ELSE InsertVal(Head(s), SortVals(Tail(s)))

\* the real lo + (num/den)*(hi - lo), lo <= hi, 0 <= num < den; one shape
\* for each real: an endpoint is <<lo, lo, 0, 1>>
Lerp(lo, hi, num, den) ==
  IF num = 0 \/ lo = hi THEN [lo |-> lo, hi |-> lo, num |-> 0, den |-> 1]
  ELSE [lo |-> lo, hi |-> hi, num |-> num, den |-> den]

\* the qn/qd quantile of s, linear interpolation between order statistics
\* (np.percentile(s, 100*qn/qd), DataFrame.quantile(qn/qd))
Quantile(s, qn, qd) ==
  LET srt == SortVals(s)
      pos == qn * (Len(s) - 1)
      k   == pos \div qd
      r   == pos % qd
  IN  IF r = 0 THEN Lerp(srt[k + 1], srt[k + 1], 0, 1)
      ELSE Lerp(srt[k + 1], srt[k + 2], r, qd)

\* s >= t for a real s and an interpolated real t
GEQThr(s, t) ==
  IF t.num = 0 THEN GEQ(s, t.lo)
  ELSE IF GEQ(s, t.hi) THEN TRUE
  ELSE IF GEQ(t.lo, s) THEN FALSE
  ELSE GEQ(Scale(t.den, Add(s, Scale(-1, t.lo))),
           Scale(t.num, Add(t.hi, Scale(-1, t.lo))))

\* faulty variant: labels only the scores strictly above the threshold
Labels_strict(scores, thr) ==
  Eval([i \in 1..Len(scores) |->
          IF GEQThr(scores[i], thr) /\ ~(thr.num = 0 /\ scores[i] = thr.lo)
          THEN 1 ELSE 0])
\* labels_[i] = 1 if decision_scores_[i] >= threshold_ else 0
Labels(scores, thr) ==
  Eval([i \in 1..Len(scores) |-> IF GEQThr(scores[i], thr) THEN 1 ELSE 0])

(* -------------------------- decision_function -------------------------- *)
\* faulty variant: keeps the first original_size sums
Slice_first(sums, original_size) ==
  IF original_size = 0 THEN sums ELSE SubSeq(sums, 1, original_size)
\* O.sum(axis=1).to_numpy()[-original_size:]
Slice(sums, original_size) == TakeLast(sums, original_size)

\* What one run of decision_function(Xin) does on an instance whose X_train
\* attribute is present (fitted) or absent: the error it raises ("" for
\* none), how far its writes got ("none", "U_l" or "all"), and the values
\* written.
DecisionFunction(fitted, Xtr, Xin, cont) ==
  LET A      == IF fitted THEN Concat(Xtr, Xin) ELSE Xin
      rows   == A.data
      dim    == A.shape[2]
      ul     == FromColumns(Eval([j \in 1..dim |-> Ul_col(Column(rows, j))]),
                            Len(rows))
      ur     == FromColumns(Eval([j \in 1..dim |-> Ur_col(Column(rows, j))]),
                            Len(rows))
      sk     == Eval([j \in 1..dim |-> SkewSign(Column(rows, j))])
      us     == Eval([i \in 1..Len(rows) |->
                   Eval([j \in 1..dim |-> Uskew_cell(ul[i][j], ur[i][j], sk[j])])])
      om     == Eval([i \in 1..Len(rows) |->
                   Eval([j \in 1..dim |-> O_cell(us[i][j], ul[i][j], ur[i][j])])])
      scores == IF fitted THEN Slice(RowSums(om), Xin.shape[1])
                ELSE RowSums(om)
      thr    == Quantile(scores, cont[2] - cont[1], cont[2])
      none   == [err |-> "", wrote |-> "none", X |-> NoArray,
                 U_l |-> NoMatrix, U_r |-> NoMatrix, U_skew |-> NoMatrix,
                 O |-> NoMatrix, scores |-> <<>>, thr |-> NoValue,
                 labels |-> <<>>]
  IN  IF fitted /\ ~CanConcat(Xtr, Xin)
        THEN [none EXCEPT !.err = "ValueError"]       \* line 99
      ELSE IF Len(A.shape) < 2
        THEN [none EXCEPT !.err = "IndexError"]       \* line 101
      ELSE IF A.shape[1] = 0
        THEN [none EXCEPT !.err = "ZeroDivisionError"] \* line 102, ECDF of no data
      ELSE IF A.dtype = "bool"
        THEN [none EXCEPT !.err = "TypeError",         \* line 103, -X
                          !.wrote = "U_l", !.X = A, !.U_l = ul]
      ELSE [err |-> "", wrote |-> "all", X |-> A,
            U_l |-> ul, U_r |-> ur, U_skew |-> us, O |-> om,
            scores |-> scores, thr |-> thr, labels |-> Labels(scores, thr)]

\* the instance after the writes of a run r of decision_function
Commit(r, at) ==
  /\ attrs' = at \cup (IF r.wrote = "all"
                         THEN {"U_l", "U_r", "U_skew", "O", "decision_scores_",
                               "threshold_", "labels_"}
                       ELSE IF r.wrote = "U_l" THEN {"U_l"} ELSE {})
  /\ U_l' = IF r.wrote = "none" THEN U_l ELSE r.U_l
  /\ X' = IF r.wrote = "none" THEN X ELSE r.X
  /\ IF r.wrote = "all"
       THEN /\ U_r' = r.U_r
            /\ U_skew' = r.U_skew
            /\ O' = r.O
            /\ decision_scores_' = r.scores
            /\ threshold_' = r.thr
            /\ labels_' = r.labels
       ELSE UNCHANGED <<U_r, U_skew, O, decision_scores_, threshold_, labels_>>

NoExpl == [row |-> <<>>, q0 |-> <<>>, q1 |-> <<>>]
Call(op, ind, err, scores, expl) ==
  [op |-> op, ind |-> ind, err |-> err, scores |-> scores, expl |-> expl]

(* ------------------------------ inputs --------------------------------- *)
Tables(maxrows, maxval) ==
  UNION {{Array("float64", <<n, d>>, rows) :
            rows \in [1..n -> [1..d -> 0..maxval]]} :
           n \in 1..maxrows, d \in 1..MaxDim}
\* a table of booleans, a 1-D array, and a table without rows
BoolTable == Array("bool", <<1, 1>>, <<<<1>>>>)
Vector == Array("float64", <<1>>, <<0>>)
Empty == Array("float64", <<0, 1>>, <<>>)
FitInputs == Tables(MaxTrain, MaxVal) \cup {BoolTable, Vector, Empty}
ScoreInputs == Tables(MaxQuery, MaxVal) \cup {BoolTable, Vector, Empty}
Indices == (0 - MaxInd - 1)..MaxInd
\* COPOD(contamination=0.1), and one more value of the parameter
Default == <<1, 10>>
Contaminations == {Default, <<1, 2>>}

\* sklearn.utils.check_array: a 2-D table with at least one row and column
CheckArray(A) == Len(A.shape) = 2 /\ A.shape[1] >= 1 /\ A.shape[2] >= 1

(* ------------------------------ actions -------------------------------- *)
Fresh ==
  /\ attrs = {}
  /\ X_train = NoArray
  /\ U_l = NoMatrix /\ U_r = NoMatrix /\ U_skew = NoMatrix /\ O = NoMatrix
  /\ decision_scores_ = <<>>
  /\ threshold_ = NoValue
  /\ labels_ = <<>>
  /\ X = NoArray
  /\ ref = NoArray
  /\ since = 0
  /\ last = Call("new", 0, "", <<>>, NoExpl)

\* COPOD(): a new detector with the default contamination
Init == contamination = Default /\ Fresh

\* fit(X): check_array, then self.X_train = X, then decision_function(X)
Fit(Xin) ==
  /\ IF ~CheckArray(Xin)
       THEN /\ UNCHANGED <<inst, X, ref, since>>
            /\ last' = Call("fit", 0, "ValueError", <<>>, NoExpl)
       ELSE LET r == DecisionFunction(TRUE, Xin, Xin, contamination)
            IN  /\ X_train' = Xin
                /\ ref' = Xin
                /\ since' = 0
                /\ Commit(r, attrs \cup {"X_train"})
                /\ last' = Call("fit", 0, r.err, <<>>, NoExpl)
  /\ UNCHANGED contamination

Count(r) ==
  IF r.err = "" /\ "X_train" \in attrs /\ since < MaxCount
  THEN since + 1 ELSE since

\* faulty variant: keeps the scored table as the reference of the next call
Score_accumulate(Xin) ==
  LET r == DecisionFunction("X_train" \in attrs, X_train, Xin, contamination)
  IN  /\ Commit(r, attrs)
      /\ last' = Call("score", 0, r.err,
                      IF r.err = "" THEN r.scores ELSE <<>>, NoExpl)
      /\ X_train' = IF r.err = "" /\ "X_train" \in attrs THEN r.X ELSE X_train
      /\ since' = Count(r)
      /\ UNCHANGED <<contamination, ref>>

\* decision_function(X) called by the user
Score(Xin) ==
  LET r == DecisionFunction("X_train" \in attrs, X_train, Xin, contamination)
  IN  /\ Commit(r, attrs)
      /\ last' = Call("score", 0, r.err,
                      IF r.err = "" THEN r.scores ELSE <<>>, NoExpl)
      /\ since' = Count(r)
      /\ UNCHANGED <<contamination, X_train, ref>>

\* explain_outlier(ind) with the default cutoffs; the plot is not modelled
Explain(ind) ==
  LET cn  == contamination[1]
      cd  == contamination[2]
      dim == Len(O[1])
      err == IF "O" \notin attrs THEN "AttributeError"        \* line 135
             ELSE IF ~InRange(O, ind) THEN "IndexError"        \* line 135
             ELSE IF ~InRange(labels_, ind) THEN "IndexError"  \* line 144
             ELSE ""
      out == [row |-> PyIndex(O, ind),
              q0  |-> Eval([j \in 1..dim |-> Quantile(Column(O, j), cd - cn, cd)]),
              q1  |-> Eval([j \in 1..dim |-> Quantile(Column(O, j), 99, 100)])]
  IN  /\ last' = Call("explain", ind, err, <<>>,
                      IF err = "" THEN out ELSE NoExpl)
      /\ UNCHANGED <<contamination, inst, X, ref, since>>

Next ==
  \/ \E Xin \in FitInputs : Fit(Xin)
  \/ \E Xin \in ScoreInputs : Score(Xin)
  \/ \E ind \in Indices : Explain(ind)

Spec == Init /\ [][Next]_vars

\* one call on a new detector, for the claims about a single scoring run
InitOnce == contamination \in Contaminations /\ Fresh

NextOnce ==
  /\ last.op = "new"
  /\ \/ \E Xin \in Tables(MaxRows, MaxValOnce) : Fit(Xin)
     \/ \E Xin \in Tables(MaxRows, MaxValOnce) : Score(Xin)

SpecOnce == InitOnce /\ [][NextOnce]_vars

\* fit and decision_function calls on well-formed tables only: every call
\* succeeds
NextCalls ==
  \/ \E Xin \in Tables(MaxTrain, MaxVal) : Fit(Xin)
  \/ \E Xin \in Tables(MaxQuery, MaxVal) : Score(Xin)

SpecCalls == Init /\ [][NextCalls]_vars

(* ------------------------------ claims --------------------------------- *)
Succeeded(op) == last.op = op /\ last.err = ""
Scored == (Succeeded("fit") \/ Succeeded("score"))
Fitted == "X_train" \in attrs
Rows(A) == A.shape[1]
Cols(A) == A.shape[2]
AllRows(M) == 1..Len(M)
Differ(s) == \E i, k \in 1..Len(s) : s[i] # s[k]

\* C1: after fit(T) on a new detector the decision scores are the scores
\* that decision_function(T) returns on a new detector, one per row of T.
C1_FitIsScore ==
  Succeeded("fit") =>
    /\ Len(decision_scores_) = Rows(X_train)
    /\ decision_scores_ =
         DecisionFunction(FALSE, NoArray, X_train, contamination).scores

C1_Witness ==
  /\ Succeeded("fit")
  /\ Rows(X_train) >= 3
  /\ \E j \in 1..Cols(X_train) : SkewSign(Column(X_train.data, j)) # 0
  /\ Differ(decision_scores_)

C3_ThresholdAndLabels ==
  "decision_scores_" \in attrs =>
    /\ threshold_ = Quantile(decision_scores_,
                             contamination[2] - contamination[1],
                             contamination[2])
    /\ Len(labels_) = Len(decision_scores_)
    /\ \A i \in 1..Len(labels_) :
         /\ labels_[i] \in {0, 1}
         /\ labels_[i] = 1 <=> GEQThr(decision_scores_[i], threshold_)

C3_Witness ==
  /\ Succeeded("score") /\ Fitted /\ since = MaxCount
  /\ \E i, k \in 1..Len(labels_) : labels_[i] = 0 /\ labels_[k] = 1
  /\ \E i \in 1..Len(labels_) : decision_scores_[i] = threshold_.lo

\* C4: column j of U_skew is column j of U_r when the sign of the skewness
\* of column j of the scored table is +1, of U_l when it is -1, and the sum
\* of the two when it is 0.
C4_SkewCases ==
  Scored =>
    \A j \in 1..Cols(X) : \A i \in AllRows(U_skew) :
      LET sk == SkewSign(Column(X.data, j))
      IN  /\ sk = 1 => U_skew[i][j] = U_r[i][j]
          /\ sk = -1 => U_skew[i][j] = U_l[i][j]
          /\ sk = 0 => U_skew[i][j] = Add(U_l[i][j], U_r[i][j])

C4_Witness ==
  /\ Scored /\ Cols(X) = 2
  /\ SkewSign(Column(X.data, 1)) = 0
  /\ SkewSign(Column(X.data, 2)) # 0
  /\ \E i \in AllRows(U_skew) :
       /\ U_skew[i][1] # Zero
       /\ U_skew[i][2] # Add(U_l[i][2], U_r[i][2])

\* C5: the left surprise of a cell is -log of the fraction of the column's
\* values <= the cell's value, the right surprise -log of the fraction >= it;
\* the fractions are in [1/n, 1] and the surprises are >= 0.
CountLE(col, v) == Cardinality({k \in 1..Len(col) : col[k] <= v})
CountGE(col, v) == Cardinality({k \in 1..Len(col) : col[k] >= v})
C5_EcdfCounts ==
  Scored =>
    /\ Len(U_l) = Rows(X) /\ Len(U_r) = Rows(X)
    /\ \A i \in 1..Rows(X) : \A j \in 1..Cols(X) :
         LET col == Column(X.data, j)
             n   == Rows(X)
         IN  /\ CountLE(col, col[i]) \in 1..n
             /\ CountGE(col, col[i]) \in 1..n
             /\ U_l[i][j] = NegLog(CountLE(col, col[i]), n)
             /\ U_r[i][j] = NegLog(CountGE(col, col[i]), n)
             /\ GEQ(U_l[i][j], Zero) /\ GEQ(U_r[i][j], Zero)

C5_Witness ==
  /\ Scored
  /\ \E j \in 1..Cols(X) : \E i, k \in 1..Rows(X) :
       /\ i # k
       /\ X.data[i][j] = X.data[k][j]
       /\ U_l[i][j] = U_l[k][j]
       /\ U_l[i][j] # Zero /\ U_r[i][j] # Zero

\* C6: scoring the table with its rows permuted gives the same scores,
\* permuted the same way, for decision_function on a new detector and for fit.
Perms(n) == {f \in [1..n -> 1..n] : \A a, b \in 1..n : f[a] = f[b] => a = b}
Permuted(s, f) == Eval([i \in 1..Len(s) |-> s[f[i]]])
PermutedTable(A, f) == Array(A.dtype, A.shape, Permuted(A.data, f))
C6_RowPermutation ==
  Scored =>
    LET T == IF Fitted THEN X_train ELSE X
    IN  \A f \in Perms(Rows(T)) :
          DecisionFunction(Fitted, PermutedTable(T, f), PermutedTable(T, f),
                           contamination).scores
            = Permuted(decision_scores_, f)

C6_Witness ==
  /\ Succeeded("fit")
  /\ Rows(X_train) >= 3
  /\ decision_scores_[1] # decision_scores_[2]
  /\ decision_scores_[2] # decision_scores_[3]
  /\ decision_scores_[1] # decision_scores_[3]

\* C7: explain_outlier(ind) raises an index error for every ind outside
\* [0, size), size the number of rows of O, and changes nothing; for every
\* ind in [0, size) it returns row ind of O without an error.
C7_ExplainRange ==
  [][(last'.op = "explain" /\ "O" \in attrs) =>
       IF last'.ind \in 0..(Len(O) - 1)
       THEN last'.err = "" /\ last'.expl.row = O[last'.ind + 1]
       ELSE last'.err = "IndexError" /\ UNCHANGED inst]_vars

\* C8: a fit or decision_function call that raises leaves the training
\* table, U_l, U_r, U_skew, O, the scores, the threshold and the labels as
\* they were.
C8_FailureIsAtomic ==
  [][(last'.op \in {"fit", "score"} /\ last'.err # "") => UNCHANGED inst]_vars

\* C9: decision_function never writes the training table, which is always
\* the table of the last fit, and on a fitted detector its result is the
\* result for that table and the query, whatever was scored in between.
C9_ScoreKeepsReference ==
  /\ X_train = ref
  /\ (Succeeded("score") /\ Fitted) =>
       LET m == Rows(ref)
           Q == Array("float64", <<Rows(X) - m, Cols(X)>>,
                      SubSeq(X.data, m + 1, Rows(X)))
       IN  last.scores = DecisionFunction(TRUE, ref, Q, contamination).scores

C9_Witness ==
  /\ Succeeded("score") /\ Fitted /\ since = MaxCount
  /\ Rows(X) > Rows(ref)
  /\ Differ(last.scores)

\* C10: after successful fit and decision_function calls, row i of O sums to
\* decision score i for every index i of the decision scores.
C10_RowsAligned ==
  Scored =>
    \A i \in 1..Len(decision_scores_) :
      i <= Len(O) /\ SumVals(O[i]) = decision_scores_[i]

====
